---- MODULE Spec2Model ----
(***************************************************************************)
(* Model of the time-slot availability service (TimeSlotsService and its   *)
(* collaborators TimezoneUtil, DataLoaderService,                          *)
(* WorkingHoursCalculatorService and TimeslotGeneratorService).            *)
(*                                                                         *)
(* Instants are UTC epoch seconds.  A JavaScript Date is modelled by its   *)
(* epoch second; every Date the service builds falls on a whole second, so *)
(* Math.floor(getTime() / 1000) is the identity on the model's instants.   *)
(* The process runs with a UTC system clock zone, so the local fields of a *)
(* Date (getFullYear, getHours, ...) are its UTC fields; a "zoned" Date of *)
(* date-fns-tz is then the epoch second whose UTC fields show the wall     *)
(* clock of the zone.                                                      *)
(***************************************************************************)
EXTENDS Integers, Sequences, FiniteSets

(***************************************************************************)
(* Bounds of the model.                                                    *)
(***************************************************************************)
MaxDays == 2

(***************************************************************************)
(* Program constants.                                                      *)
(***************************************************************************)
TODAY == 1631232000
SECONDS_IN_DAY == 24 * 60 * 60
DEFAULT_DAYS == 1
DEFAULT_TIMESLOT_INTERVAL == 1800
DATE_IDENTIFIER_LENGTH == 8

(***************************************************************************)
(* The IANA zone table, restricted to the zones of the test suite and to   *)
(* the instants of 2021: America/New_York is on daylight time (UTC-4)      *)
(* from 2021-03-14T07:00:00Z to 2021-11-07T06:00:00Z, Europe/London        *)
(* (UTC+1) from 2021-03-28T01:00:00Z to 2021-10-31T01:00:00Z.              *)
(***************************************************************************)
Zones == {"UTC", "Asia/Seoul", "Asia/Tokyo", "America/New_York", "Europe/London"}

calcOffset(t, tz) ==
    CASE tz = "UTC" -> 0
      [] tz = "Asia/Seoul" -> 32400
      [] tz = "Asia/Tokyo" -> 32400
      [] tz = "America/New_York" ->
            IF t >= 1615705200 /\ t < 1636264800 THEN -14400 ELSE -18000
      [] tz = "Europe/London" ->
            IF t >= 1616893200 /\ t < 1635642000 THEN 3600 ELSE 0

Max(a, b) == IF a >= b THEN a ELSE b

\* date-fns-tz fixOffset: the offset of the zone at a wall-clock time.
fixOffset(localTS, offset, tz) ==
    LET utcGuess == localTS - offset
        o2 == calcOffset(utcGuess, tz)
        utcGuess2 == utcGuess - (o2 - offset)
        o3 == calcOffset(utcGuess2, tz)
    IN  IF offset = o2 THEN offset
        ELSE IF o2 = o3 THEN o2
        ELSE Max(o2, o3)

\* toZonedTime(date, tz): the Date whose fields show the wall clock of tz.
convertToTimezone(utcDate, tz) == utcDate + calcOffset(utcDate, tz)

\* fromZonedTime(date, tz): the instant at which tz shows the fields of date.
convertFromTimezone(zonedDate, tz) ==
    zonedDate - fixOffset(zonedDate, calcOffset(zonedDate, tz), tz)

(***************************************************************************)
(* JavaScript primitives used by the parser.  A string is a sequence of    *)
(* one-character strings.                                                  *)
(***************************************************************************)
Digits == <<"0", "1", "2", "3", "4", "5", "6", "7", "8", "9">>

IsDigit(c) == \E i \in 1..10 : Digits[i] = c

DigitValue(c) == (CHOOSE i \in 1..10 : Digits[i] = c) - 1

substring(s, from, to) == SubSeq(s, from + 1, to)

RECURSIVE DigitPrefix(_)
DigitPrefix(s) ==
    IF s = <<>> \/ ~IsDigit(Head(s)) THEN <<>>
    ELSE <<Head(s)>> \o DigitPrefix(Tail(s))

RECURSIVE DecimalValue(_)
DecimalValue(s) ==
    IF s = <<>> THEN 0
    ELSE 10 * DecimalValue(SubSeq(s, 1, Len(s) - 1)) + DigitValue(s[Len(s)])

RECURSIVE SkipSpaces(_)
SkipSpaces(s) ==
    IF s # <<>> /\ Head(s) = " " THEN SkipSpaces(Tail(s)) ELSE s

\* parseInt(s): leading white space and one sign are skipped, then the
\* longest run of decimal digits is read; <<>> stands for NaN and <<n>> for
\* the number n.
parseInt(s) ==
    LET t == SkipSpaces(s)
        neg == t # <<>> /\ Head(t) = "-"
        u == IF t # <<>> /\ Head(t) \in {"-", "+"} THEN Tail(t) ELSE t
        d == DigitPrefix(u)
    IN  IF d = <<>> THEN <<>>
        ELSE IF neg THEN <<0 - DecimalValue(d)>> ELSE <<DecimalValue(d)>>

isNaN(n) == n = <<>>

\* Days from 1970-01-01 to the civil date y-m-d (m in 1..12) of the
\* proleptic Gregorian calendar.
DaysFromCivil(y, m, d) ==
    LET yy == IF m <= 2 THEN y - 1 ELSE y
        era == yy \div 400
        yoe == yy - era * 400
        mp == (m + 9) % 12
        doy == ((153 * mp + 2) \div 5) + d - 1
        doe == (yoe * 365) + (yoe \div 4) - (yoe \div 100) + doy
    IN  (era * 146097) + doe - 719468

\* new Date(year, monthIndex, day, 0, 0, 0, 0): month and day overflow are
\* normalised, years 0..99 stand for 1900..1999.
NewDate(year, monthIndex, day) ==
    LET fy == IF year >= 0 /\ year <= 99 THEN 1900 + year ELSE year
        y == fy + (monthIndex \div 12)
        m == (monthIndex % 12) + 1
    IN  (DaysFromCivil(y, m, 1) + day - 1) * SECONDS_IN_DAY

\* Date.prototype.getUTCDay: 0 = Sunday .. 6 = Saturday.
getUTCDay(date) == ((date \div SECONDS_IN_DAY) + 4) % 7

(***************************************************************************)
(* TimezoneUtil.                                                           *)
(***************************************************************************)
\* A JavaScript value handed over as timezone_identifier: its typeof, and
\* its text when it is a string.
JsString(s) == [type |-> "string", value |-> s]

JsUndefined == [type |-> "undefined", value |-> ""]

JsNull == [type |-> "object", value |-> ""]

JsNumber9 == [type |-> "number", value |-> "9"]

\* !timezoneId: undefined, null and the empty string are falsy, 9 is not.
Falsy(v) == v \in {JsUndefined, JsNull, JsString("")}

\* String.prototype.trim on the identifiers the requests carry: only the
\* whitespace-only ones have leading or trailing whitespace.
trim(s) == IF s \in {" ", "   "} THEN "" ELSE s

\* toZonedTime gives a valid date exactly for the zones the runtime resolves.
isValidTimezoneIdentifier(timezoneId) == timezoneId \in Zones

\* Variant: the typeof guard is missing, trim is called on whatever came.
validateTimezoneIdentifierNoTypeGuard(timezoneId) ==
    IF timezoneId.type # "string" THEN "TypeError"
    ELSE IF trim(timezoneId.value) = "" THEN "Invalid timezone identifier"
    ELSE IF ~isValidTimezoneIdentifier(timezoneId.value) THEN "Invalid timezone identifier"
    ELSE "ok"

\* "ok", or the error validateTimezoneIdentifier throws (its three messages
\* all start with "Invalid timezone identifier", which is what is kept).
validateTimezoneIdentifier(timezoneId) ==
    IF Falsy(timezoneId) \/ timezoneId.type # "string" THEN "Invalid timezone identifier"
    ELSE IF trim(timezoneId.value) = "" THEN "Invalid timezone identifier"
    ELSE IF ~isValidTimezoneIdentifier(timezoneId.value) THEN "Invalid timezone identifier"
    ELSE "ok"

\* Variant: formatDateInTimezone has no try/catch, the error of format
\* reaches the caller.
formatDateInTimezoneNoCatch(date, timezoneId, formatThrows) ==
    [thrown |-> formatThrows, warnings |-> {}]

\* formatDateInTimezone and formatTimeInTimezone: when format throws, the
\* catch block logs a warning and returns the UTC text.  The text goes to
\* the log only; what is kept is whether the call threw and what it warned.
formatDateInTimezone(date, timezoneId, formatThrows) ==
    [thrown |-> FALSE,
     warnings |-> IF formatThrows THEN {"Failed to format date"} ELSE {}]

formatTimeInTimezone(date, timezoneId, formatThrows) ==
    [thrown |-> FALSE,
     warnings |-> IF formatThrows THEN {"Failed to format time"} ELSE {}]

\* Variant: the civil date is read as a UTC date, the zone is not applied.
parseStartDayIdentifierAsUTC(identifier, timezoneId) ==
    IF identifier = <<>> \/ Len(identifier) # DATE_IDENTIFIER_LENGTH
    THEN [ok |-> FALSE, error |-> "Invalid start_day_identifier format", date |-> 0]
    ELSE LET year == parseInt(substring(identifier, 0, 4))
             month == parseInt(substring(identifier, 4, 6))
             day == parseInt(substring(identifier, 6, 8))
         IN  IF isNaN(year) \/ isNaN(month) \/ isNaN(day)
             THEN [ok |-> FALSE, error |-> "Invalid date components in start_day_identifier", date |-> 0]
             ELSE [ok |-> TRUE, error |-> "", date |-> NewDate(year[1], month[1] - 1, day[1])]

\* [ok |-> FALSE, error |-> ...] when the parser throws, else the instant.
parseStartDayIdentifierWithTimezone(identifier, timezoneId) ==
    IF identifier = <<>> \/ Len(identifier) # DATE_IDENTIFIER_LENGTH
    THEN [ok |-> FALSE, error |-> "Invalid start_day_identifier format", date |-> 0]
    ELSE LET year == parseInt(substring(identifier, 0, 4))
             month == parseInt(substring(identifier, 4, 6))
             day == parseInt(substring(identifier, 6, 8))
         IN  IF isNaN(year) \/ isNaN(month) \/ isNaN(day)
             THEN [ok |-> FALSE, error |-> "Invalid date components in start_day_identifier", date |-> 0]
             ELSE LET dateInTimezone == NewDate(year[1], month[1] - 1, day[1])
                  IN  [ok |-> TRUE, error |-> "",
                       date |-> convertFromTimezone(dateInTimezone, timezoneId)]

(***************************************************************************)
(* WorkingHoursCalculatorService.  A work-hour rule is a record            *)
(* [weekday, open_interval, close_interval, is_day_off]; an optional rule  *)
(* (IWorkhour | undefined) is <<>> or <<rule>>.                            *)
(***************************************************************************)
\* Variant: the zoned work start and end are not converted back to UTC.
calculateWorkingHoursNoConvertBack(startOfDayUTC, dayWorkhour, isIgnoreWorkhour, tz) ==
    IF isIgnoreWorkhour \/ dayWorkhour = <<>>
    THEN [workStartSeconds |-> startOfDayUTC,
          workEndSeconds |-> startOfDayUTC + SECONDS_IN_DAY - 1]
    ELSE LET zonedStartOfDay == convertToTimezone(startOfDayUTC, tz)
         IN  [workStartSeconds |-> zonedStartOfDay + dayWorkhour[1].open_interval,
              workEndSeconds |-> zonedStartOfDay + dayWorkhour[1].close_interval]

\* Variant: the full-day window ends at the next midnight.
calculateWorkingHoursWholeDay(startOfDayUTC, dayWorkhour, isIgnoreWorkhour, tz) ==
    IF isIgnoreWorkhour \/ dayWorkhour = <<>>
    THEN [workStartSeconds |-> startOfDayUTC,
          workEndSeconds |-> startOfDayUTC + SECONDS_IN_DAY]
    ELSE LET zonedStartOfDay == convertToTimezone(startOfDayUTC, tz)
             workStartInTimezone == zonedStartOfDay + dayWorkhour[1].open_interval
             workEndInTimezone == zonedStartOfDay + dayWorkhour[1].close_interval
         IN  [workStartSeconds |-> convertFromTimezone(workStartInTimezone, tz),
              workEndSeconds |-> convertFromTimezone(workEndInTimezone, tz)]

calculateWorkingHoursWithTimezone(startOfDayUTC, dayWorkhour, isIgnoreWorkhour, tz) ==
    IF isIgnoreWorkhour
    THEN [workStartSeconds |-> startOfDayUTC,
          workEndSeconds |-> startOfDayUTC + SECONDS_IN_DAY - 1]
    ELSE IF dayWorkhour = <<>>
    THEN [workStartSeconds |-> startOfDayUTC,
          workEndSeconds |-> startOfDayUTC + SECONDS_IN_DAY - 1]
    ELSE LET zonedStartOfDay == convertToTimezone(startOfDayUTC, tz)
             workStartInTimezone == zonedStartOfDay + dayWorkhour[1].open_interval
             workEndInTimezone == zonedStartOfDay + dayWorkhour[1].close_interval
         IN  [workStartSeconds |-> convertFromTimezone(workStartInTimezone, tz),
              workEndSeconds |-> convertFromTimezone(workEndInTimezone, tz)]

getWeekdayUTC(date) == getUTCDay(date) + 1

(***************************************************************************)
(* TimeslotGeneratorService.  A slot and an event are records              *)
(* [begin_at, end_at]; created_at and updated_at of an event are never     *)
(* read.                                                                   *)
(***************************************************************************)
RECURSIVE generateFrom(_, _, _, _)
generateFrom(current, endSeconds, serviceDuration, interval) ==
    IF current + serviceDuration <= endSeconds
    THEN <<[begin_at |-> current, end_at |-> current + serviceDuration]>>
         \o generateFrom(current + interval, endSeconds, serviceDuration, interval)
    ELSE <<>>

\* Variant: a slot ends one interval after it begins.
RECURSIVE generateFromIntervalEnd(_, _, _, _)
generateFromIntervalEnd(current, endSeconds, serviceDuration, interval) ==
    IF current + serviceDuration <= endSeconds
    THEN <<[begin_at |-> current, end_at |-> current + interval]>>
         \o generateFromIntervalEnd(current + interval, endSeconds, serviceDuration, interval)
    ELSE <<>>

generateAllTimeslotsIntervalEnd(startSeconds, endSeconds, serviceDuration, interval) ==
    generateFromIntervalEnd(startSeconds, endSeconds, serviceDuration, interval)

\* Variant: the cursor advances by the service duration.
generateAllTimeslotsDurationStep(startSeconds, endSeconds, serviceDuration, interval) ==
    generateFrom(startSeconds, endSeconds, serviceDuration, serviceDuration)

\* Variant: each slot is put in front of the list (unshift for push).
generateAllTimeslotsNewestFirst(startSeconds, endSeconds, serviceDuration, interval) ==
    LET all == generateFrom(startSeconds, endSeconds, serviceDuration, interval)
    IN  [i \in 1..Len(all) |-> all[Len(all) - i + 1]]

\* Variant: the loop goes on while the slot begins inside the window
\* (current <= endSeconds).
generateAllTimeslotsBeginFits(startSeconds, endSeconds, serviceDuration, interval) ==
    generateFrom(startSeconds, endSeconds + serviceDuration, serviceDuration, interval)

\* Variant: the loop tests its condition after the first pass.
generateAllTimeslotsDoWhile(startSeconds, endSeconds, serviceDuration, interval) ==
    <<[begin_at |-> startSeconds, end_at |-> startSeconds + serviceDuration]>>
    \o generateFrom(startSeconds + interval, endSeconds, serviceDuration, interval)

generateAllTimeslots(startSeconds, endSeconds, serviceDuration, interval) ==
    generateFrom(startSeconds, endSeconds, serviceDuration, interval)

\* The for loop of generateAllTimeslots ends: its condition
\* current + serviceDuration <= endSeconds fails at once, or current grows.
loopExits(startSeconds, endSeconds, serviceDuration, interval) ==
    ~(startSeconds + serviceDuration <= endSeconds) \/ interval > 0

\* Variant: a conflict only when the slot begins inside the event.
hasTimeConflictBeginOnly(slot, event) ==
    slot.begin_at >= event.begin_at /\ slot.begin_at < event.end_at

\* Variant: closed-interval overlap, touching end points conflict.
hasTimeConflictClosed(slot, event) ==
    ~(slot.end_at < event.begin_at \/ slot.begin_at > event.end_at)

hasTimeConflictWithTimezone(slot, event) ==
    ~(slot.end_at <= event.begin_at \/ slot.begin_at >= event.end_at)

filterConflictingTimeslotsWithTimezone(timeslots, evs) ==
    IF Len(evs) = 0 THEN timeslots
    ELSE LET keep(slot) ==
                 ~(\E i \in 1..Len(evs) : hasTimeConflictWithTimezone(slot, evs[i]))
         IN  SelectSeq(timeslots, keep)

(***************************************************************************)
(* TimeSlotsService.                                                       *)
(***************************************************************************)
\* Variant: the last rule of the weekday is taken (findLast).
findLast(whs, weekday) ==
    IF \E i \in 1..Len(whs) : whs[i].weekday = weekday
    THEN <<whs[CHOOSE i \in 1..Len(whs) :
                 /\ whs[i].weekday = weekday
                 /\ \A j \in (i + 1)..Len(whs) : whs[j].weekday # weekday]>>
    ELSE <<>>

\* workhours.find(wh => wh.weekday === weekday)
find(whs, weekday) ==
    IF \E i \in 1..Len(whs) : whs[i].weekday = weekday
    THEN <<whs[CHOOSE i \in 1..Len(whs) :
                 /\ whs[i].weekday = weekday
                 /\ \A j \in 1..(i - 1) : whs[j].weekday # weekday]>>
    ELSE <<>>

\* Variant: the day-off early return is missing.
generateDayTimetableNoDayOff(date, dayModifier, tz, serviceDuration, timeslotInterval, evs, whs, isIgnoreWorkhour) ==
    LET startOfDayUTC == date
        dayWorkhour == find(whs, getWeekdayUTC(date))
        w == calculateWorkingHoursWithTimezone(startOfDayUTC, dayWorkhour,
                                               isIgnoreWorkhour, tz)
        allTimeslots == generateAllTimeslots(w.workStartSeconds, w.workEndSeconds,
                                             serviceDuration, timeslotInterval)
    IN  [start_of_day |-> startOfDayUTC, day_modifier |-> dayModifier,
         is_day_off |-> FALSE,
         timeslots |-> filterConflictingTimeslotsWithTimezone(allTimeslots, evs)]

generateDayTimetableWithTimezone(date, dayModifier, tz, serviceDuration, timeslotInterval, evs, whs, isIgnoreWorkhour) ==
    LET startOfDayUTC == date
        weekday == getWeekdayUTC(date)
        dayWorkhour == find(whs, weekday)
        isDayOff == IF dayWorkhour = <<>> THEN FALSE ELSE dayWorkhour[1].is_day_off
    IN  IF ~isIgnoreWorkhour /\ isDayOff
        THEN [start_of_day |-> startOfDayUTC, day_modifier |-> dayModifier,
              is_day_off |-> TRUE, timeslots |-> <<>>]
        ELSE LET w == calculateWorkingHoursWithTimezone(startOfDayUTC, dayWorkhour,
                                                        isIgnoreWorkhour, tz)
                 allTimeslots == generateAllTimeslots(w.workStartSeconds, w.workEndSeconds,
                                                      serviceDuration, timeslotInterval)
             IN  [start_of_day |-> startOfDayUTC, day_modifier |-> dayModifier,
                  is_day_off |-> FALSE,
                  timeslots |-> filterConflictingTimeslotsWithTimezone(allTimeslots, evs)]

\* generateDayTimetableWithTimezone returns: the day is a day off, or the
\* enumeration of its window ends.
dayReturns(date, tz, serviceDuration, timeslotInterval, whs, isIgnoreWorkhour) ==
    LET dayWorkhour == find(whs, getWeekdayUTC(date))
        isDayOff == IF dayWorkhour = <<>> THEN FALSE ELSE dayWorkhour[1].is_day_off
    IN  IF ~isIgnoreWorkhour /\ isDayOff THEN TRUE
        ELSE LET w == calculateWorkingHoursWithTimezone(date, dayWorkhour,
                                                        isIgnoreWorkhour, tz)
             IN  loopExits(w.workStartSeconds, w.workEndSeconds,
                           serviceDuration, timeslotInterval)

\* Variant: the day-off test comes after the window is resolved.
callsOfLateDayOff(date, whs, isIgnoreWorkhour) ==
    LET dayWorkhour == find(whs, getWeekdayUTC(date))
        isDayOff == IF dayWorkhour = <<>> THEN FALSE ELSE dayWorkhour[1].is_day_off
    IN  IF ~isIgnoreWorkhour /\ isDayOff
        THEN {"calculateWorkingHoursWithTimezone"}
        ELSE {"calculateWorkingHoursWithTimezone", "generateAllTimeslots",
              "filterConflictingTimeslotsWithTimezone", "logAvailableTimeslots"}

\* The services generateDayTimetableWithTimezone calls for a day.
callsOf(date, whs, isIgnoreWorkhour) ==
    LET dayWorkhour == find(whs, getWeekdayUTC(date))
        isDayOff == IF dayWorkhour = <<>> THEN FALSE ELSE dayWorkhour[1].is_day_off
    IN  IF ~isIgnoreWorkhour /\ isDayOff
        THEN {}
        ELSE {"calculateWorkingHoursWithTimezone", "generateAllTimeslots",
              "filterConflictingTimeslotsWithTimezone", "logAvailableTimeslots"}

\* The warnings logged while a day is built and reported: the date of every
\* day is formatted; a time is formatted for the window of an applied rule,
\* for a conflict between a candidate and an event, and for a returned slot.
warnsOf(date, tz, serviceDuration, timeslotInterval, evs, whs, isIgnoreWorkhour, formatThrows) ==
    LET dayWorkhour == find(whs, getWeekdayUTC(date))
        isDayOff == IF dayWorkhour = <<>> THEN FALSE ELSE dayWorkhour[1].is_day_off
        w == calculateWorkingHoursWithTimezone(date, dayWorkhour, isIgnoreWorkhour, tz)
        allTimeslots == generateAllTimeslots(w.workStartSeconds, w.workEndSeconds,
                                             serviceDuration, timeslotInterval)
        timeFormatted ==
            \/ ~isIgnoreWorkhour /\ dayWorkhour # <<>>
            \/ \E i \in 1..Len(allTimeslots) : \E j \in 1..Len(evs) :
                  hasTimeConflictWithTimezone(allTimeslots[i], evs[j])
            \/ filterConflictingTimeslotsWithTimezone(allTimeslots, evs) # <<>>
        timeWarnings == formatTimeInTimezone(date, tz, formatThrows).warnings
    IN  formatDateInTimezone(date, tz, formatThrows).warnings
        \cup (IF timeWarnings = {} \/ (~isIgnoreWorkhour /\ isDayOff) \/ ~timeFormatted
              THEN {} ELSE timeWarnings)

\* Math.round(x / d) for an integer x and d > 0: halves round towards +infinity.
MathRound(x, d) == ((2 * x) + d) \div (2 * d)

\* Variant: the reference day is TODAY itself, the zone is not applied.
todayUTCOfNoZone(tz) == TODAY

\* The reference day: local midnight, in the request zone, of the civil date
\* that the zone shows at TODAY.
todayUTCOf(tz) ==
    LET todayInTimezone == convertToTimezone(TODAY, tz)
        todayDateOnly == (todayInTimezone \div SECONDS_IN_DAY) * SECONDS_IN_DAY
    IN  convertFromTimezone(todayDateOnly, tz)

\* Variant: the copy of startDate is never advanced.
currentDateOfNoAdvance(start, dayIdx) == start

\* currentDate.setUTCDate(startDate.getUTCDate() + dayIndex)
currentDateOf(start, dayIdx) == start + (dayIdx * SECONDS_IN_DAY)

\* Variant: the distance in days, without its sign.
dayModifierOfUnsigned(currentDate, today) ==
    LET d == MathRound(currentDate - today, SECONDS_IN_DAY)
    IN  IF d < 0 THEN -d ELSE d

dayModifierOf(currentDate, today) == MathRound(currentDate - today, SECONDS_IN_DAY)

(***************************************************************************)
(* The requests and the data files the model ranges over.  An optional     *)
(* field of the DTO is <<>> when omitted and <<v>> when given.  A data     *)
(* file is [readable, content]; reading an unreadable file throws inside   *)
(* the loader.                                                             *)
(***************************************************************************)
StartDayIdentifiers ==
    { <<"2", "0", "2", "1", "0", "5", "0", "9">>,
      <<"2", "0", "2", "1", "0", "3", "1", "4">>,
      <<"2", "0", "2", "1", "1", "1", "0", "7">>,
      <<"2", "0", "2", "1", "0", "2", "2", "8">>,
      <<"2", "0", "2", "1", "0", "9", "1", "0">> }

InvalidStartDayIdentifiers ==
    { <<"i", "n", "v", "a", "l", "i", "d", "_", "d", "a", "t", "e">>,
      <<"2", "0", "2", "1", "a", "b", "0", "9">>,
      <<>> }

\* Identifiers that parseInt accepts although a component is not a number
\* in full: day "1x" reads as 1, month " 5" as 5.
LenientStartDayIdentifiers ==
    { <<"2", "0", "2", "1", "0", "5", "1", "x">>,
      <<"2", "0", "2", "1", " ", "5", "0", "9">> }

InvalidTimezones ==
    {JsString(z) : z \in {"", " ", "   ", "KST", "GMT+9", "Seoul", "Asia/Seoul/Invalid"}}
    \cup {JsUndefined, JsNull, JsNumber9}

\* Asia/Tokyo behaves as Asia/Seoul does; it is kept as a zone to compare with.
RequestZones == Zones \ {"Asia/Tokyo"}

ServiceDurations == {3600, 7200, 86400}

TimeslotIntervals == {1800, 3600}

Requests ==
    [start_day_identifier : StartDayIdentifiers,
     timezone_identifier : {JsString(z) : z \in RequestZones},
     service_duration : ServiceDurations,
     days : {<<d>> : d \in 0..MaxDays},
     timeslot_interval : {<<i>> : i \in TimeslotIntervals},
     is_ignore_schedule : {<<b>> : b \in BOOLEAN},
     is_ignore_workhour : {<<b>> : b \in BOOLEAN}]
    \cup
    [start_day_identifier : StartDayIdentifiers,
     timezone_identifier : {JsString(z) : z \in RequestZones},
     service_duration : ServiceDurations,
     days : {<<>>}, timeslot_interval : {<<>>},
     is_ignore_schedule : {<<>>}, is_ignore_workhour : {<<>>}]
    \cup
    [start_day_identifier : InvalidStartDayIdentifiers \cup LenientStartDayIdentifiers
                              \cup {<<"2", "0", "2", "1", "0", "5", "0", "9">>},
     timezone_identifier : InvalidTimezones \cup {JsString("Asia/Seoul")},
     service_duration : {3600},
     days : {<<1>>}, timeslot_interval : {<<1800>>},
     is_ignore_schedule : {<<FALSE>>}, is_ignore_workhour : {<<FALSE>>}]
    \cup
    \* getTimeSlots called without the validation of the DTO: interval 0.
    [start_day_identifier : {<<"2", "0", "2", "1", "0", "5", "0", "9">>},
     timezone_identifier : {JsString("Asia/Seoul"), JsString("UTC")},
     service_duration : {3600},
     days : {<<1>>, <<2>>}, timeslot_interval : {<<0>>},
     is_ignore_schedule : {<<TRUE>>}, is_ignore_workhour : {<<TRUE>>}]

\* UTC midnight of the requested civil date (of 2021-05-09 when the
\* identifier does not parse); the data files are laid out around it.
BaseOf(r) ==
    LET p == parseStartDayIdentifierWithTimezone(r.start_day_identifier, "UTC")
    IN  IF p.ok THEN p.date ELSE NewDate(2021, 4, 9)

Event(b, e) == [begin_at |-> b, end_at |-> e]

\* The events files tried when the request reads the file (all of them)
\* and when it ignores the schedule (one with events on both days).
EventsFiles(base, ignored) ==
    LET e1 == Event(base + 36000, base + 43200)
        e2 == Event(base + 136800, base + 140400)
        e3 == Event(base + 50400, base + 46800)
    IN  IF ignored THEN { [readable |-> TRUE, content |-> <<e2, e1>>] } ELSE
        { [readable |-> TRUE, content |-> <<>>],
          [readable |-> TRUE, content |-> <<e1>>],
          [readable |-> TRUE, content |-> <<e2, e1>>],
          [readable |-> TRUE, content |-> <<e3>>],
          [readable |-> FALSE, content |-> <<>>] }

Rule(w, open, close, off) ==
    [weekday |-> w, open_interval |-> open, close_interval |-> close, is_day_off |-> off]

\* The weekday number k days after the weekday number w.
WeekdayAfter(w, k) == ((w - 1 + k) % 7) + 1

\* The work-hours files tried when the request reads the file (all of
\* them) and when it ignores work hours (one with day-off rules).
WorkhoursFiles(base, ignored) ==
    LET w == getUTCDay(base) + 1
    IN  IF ignored
        THEN { [readable |-> TRUE, content |->
                  <<Rule(WeekdayAfter(w, 6), 0, 0, TRUE),
                    Rule(w, 36000, 72000, TRUE),
                    Rule(w, 36000, 72000, FALSE),
                    Rule(WeekdayAfter(w, 1), 36000, 72000, FALSE)>>] } ELSE
        { [readable |-> TRUE, content |-> <<>>],
          [readable |-> TRUE, content |-> <<Rule(w, 36000, 72000, FALSE)>>],
          [readable |-> TRUE, content |->
             <<Rule(WeekdayAfter(w, 6), 36000, 72000, FALSE),
               Rule(w, 36000, 72000, FALSE),
               Rule(WeekdayAfter(w, 1), 36000, 72000, TRUE),
               Rule(WeekdayAfter(w, 2), 32400, 64800, FALSE)>>],
          [readable |-> TRUE, content |->
             <<Rule(WeekdayAfter(w, 6), 0, 0, TRUE),
               Rule(w, 36000, 72000, TRUE),
               Rule(w, 36000, 72000, FALSE),
               Rule(WeekdayAfter(w, 1), 36000, 72000, FALSE)>>],
          [readable |-> TRUE, content |->
             <<Rule(WeekdayAfter(w, 6), 72000, 36000, FALSE),
               Rule(w, 32400, 90000, FALSE)>>],
          [readable |-> FALSE, content |-> <<>>] }

(***************************************************************************)
(* DataLoaderService: a failure to read or parse the file is caught and    *)
(* an empty array returned.                                                *)
(***************************************************************************)
loadEvents(file) == IF file.readable THEN file.content ELSE <<>>

loadWorkhours(file) == IF file.readable THEN file.content ELSE <<>>

(***************************************************************************)
(* One getTimeSlots call.                                                  *)
(***************************************************************************)
VARIABLES dto, eventsFile, workhoursFile, pc, error, startDate, events,
          workhours, todayUTC, dayIndex, dayTimetables,
          loadEventsCalls, loadWorkhoursCalls,
          formatFails, warnings, invoked, peer

vars == <<dto, eventsFile, workhoursFile, pc, error, startDate, events,
          workhours, todayUTC, dayIndex, dayTimetables,
          loadEventsCalls, loadWorkhoursCalls,
          formatFails, warnings, invoked, peer>>

\* formatFails: format of date-fns-tz throws during this call.  warnings:
\* the kinds of message given to logger.warn.  invoked: per built day, the
\* services the day builder called.  peer: the local state of a second call
\* on the same service instance, [pc |-> "absent"] when there is none.
diagnostics == <<formatFails, warnings, invoked, peer>>

\* The calls made to the data loader, counted.
loads == <<loadEventsCalls, loadWorkhoursCalls>>

\* The destructuring defaults of getTimeSlots.
Default(field, value) == IF field = <<>> THEN value ELSE field[1]

\* Variant: dto.days || DEFAULT_DAYS, which also replaces 0.
daysOrDefault == IF dto.days = <<>> \/ dto.days[1] = 0 THEN DEFAULT_DAYS ELSE dto.days[1]

days == Default(dto.days, DEFAULT_DAYS)
timeslot_interval == Default(dto.timeslot_interval, DEFAULT_TIMESLOT_INTERVAL)
\* Variant: the schedule is ignored unless the request says otherwise.
is_ignore_scheduleDefaultTrue == Default(dto.is_ignore_schedule, TRUE)

is_ignore_schedule == Default(dto.is_ignore_schedule, FALSE)
is_ignore_workhour == Default(dto.is_ignore_workhour, FALSE)
timezone_identifier == dto.timezone_identifier.value
service_duration == dto.service_duration

Init ==
    /\ dto \in Requests
    /\ eventsFile \in EventsFiles(BaseOf(dto), is_ignore_schedule)
    /\ workhoursFile \in WorkhoursFiles(BaseOf(dto), is_ignore_workhour)
    /\ pc = "validate"
    /\ error = ""
    /\ startDate = 0
    /\ events = <<>>
    /\ workhours = <<>>
    /\ todayUTC = 0
    /\ dayIndex = 0
    /\ dayTimetables = <<>>
    /\ loadEventsCalls = 0
    /\ loadWorkhoursCalls = 0
    /\ formatFails = FALSE
    /\ warnings = {}
    /\ invoked = <<>>
    /\ peer = [pc |-> "absent"]

ValidateTimezone ==
    /\ pc = "validate"
    /\ validateTimezoneIdentifier(dto.timezone_identifier) = "ok"
    /\ pc' = "parse"
    /\ UNCHANGED <<diagnostics, loads, dto, eventsFile, workhoursFile, error, startDate, events,
                   workhours, todayUTC, dayIndex, dayTimetables>>

RejectTimezone ==
    /\ pc = "validate"
    /\ validateTimezoneIdentifier(dto.timezone_identifier) # "ok"
    /\ pc' = "failed"
    /\ error' = validateTimezoneIdentifier(dto.timezone_identifier)
    /\ UNCHANGED <<diagnostics, loads, dto, eventsFile, workhoursFile, startDate, events,
                   workhours, todayUTC, dayIndex, dayTimetables>>

ParseStartDay ==
    /\ pc = "parse"
    /\ LET p == parseStartDayIdentifierWithTimezone(dto.start_day_identifier,
                                                    timezone_identifier)
       IN  /\ p.ok
           /\ startDate' = p.date
    /\ pc' = "loadEvents"
    /\ UNCHANGED <<diagnostics, loads, dto, eventsFile, workhoursFile, error, events,
                   workhours, todayUTC, dayIndex, dayTimetables>>

RejectStartDay ==
    /\ pc = "parse"
    /\ LET p == parseStartDayIdentifierWithTimezone(dto.start_day_identifier,
                                                    timezone_identifier)
       IN  /\ ~p.ok
           /\ error' = p.error
    /\ pc' = "failed"
    /\ UNCHANGED <<diagnostics, loads, dto, eventsFile, workhoursFile, startDate, events,
                   workhours, todayUTC, dayIndex, dayTimetables>>

\* Variant: the loader has no try/catch, a read failure rejects the request.
LoadEventsNoCatch ==
    /\ pc = "loadEvents"
    /\ events' = IF is_ignore_schedule THEN <<>> ELSE eventsFile.content
    /\ loadEventsCalls' = IF is_ignore_schedule THEN loadEventsCalls
                          ELSE loadEventsCalls + 1
    /\ pc' = IF ~is_ignore_schedule /\ ~eventsFile.readable THEN "failed"
             ELSE "loadWorkhours"
    /\ error' = IF ~is_ignore_schedule /\ ~eventsFile.readable THEN "ENOENT"
                ELSE error
    /\ UNCHANGED <<diagnostics, loadWorkhoursCalls, dto, eventsFile, workhoursFile, startDate,
                   workhours, todayUTC, dayIndex, dayTimetables>>

LoadEvents ==
    /\ pc = "loadEvents"
    /\ events' = IF is_ignore_schedule THEN <<>> ELSE loadEvents(eventsFile)
    /\ loadEventsCalls' = IF is_ignore_schedule THEN loadEventsCalls
                          ELSE loadEventsCalls + 1
    /\ pc' = "loadWorkhours"
    /\ UNCHANGED <<diagnostics, loadWorkhoursCalls, dto, eventsFile, workhoursFile, error, startDate,
                   workhours, todayUTC, dayIndex, dayTimetables>>

LoadWorkhours ==
    /\ pc = "loadWorkhours"
    /\ workhours' = IF is_ignore_workhour THEN <<>> ELSE loadWorkhours(workhoursFile)
    /\ loadWorkhoursCalls' = IF is_ignore_workhour THEN loadWorkhoursCalls
                             ELSE loadWorkhoursCalls + 1
    /\ pc' = "today"
    /\ UNCHANGED <<diagnostics, loadEventsCalls, dto, eventsFile, workhoursFile, error, startDate, events,
                   todayUTC, dayIndex, dayTimetables>>

ComputeToday ==
    /\ pc = "today"
    /\ todayUTC' = todayUTCOf(timezone_identifier)
    /\ dayIndex' = 0
    /\ pc' = "loop"
    /\ UNCHANGED <<diagnostics, loads, dto, eventsFile, workhoursFile, error, startDate, events,
                   workhours, dayTimetables>>

\* Variant: the loop body neither pushes a day nor advances dayIndex.
BuildDayNoProgress ==
    /\ pc = "loop"
    /\ dayIndex < days
    /\ UNCHANGED vars

\* One pass of the loop over the days, for a day whose builder returns:
\* the day is built and pushed, then reported with its formatted date.  An
\* error thrown there is caught nowhere in getTimeSlots.
BuildDay ==
    /\ pc = "loop"
    /\ dayIndex < days
    /\ LET currentDate == currentDateOf(startDate, dayIndex)
           dayModifier == dayModifierOf(currentDate, todayUTC)
       IN  /\ dayReturns(currentDate, timezone_identifier, service_duration,
                         timeslot_interval, workhours, is_ignore_workhour)
           /\ dayTimetables' =
                 Append(dayTimetables,
                        generateDayTimetableWithTimezone(
                            currentDate, dayModifier, timezone_identifier,
                            service_duration, timeslot_interval, events,
                            workhours, is_ignore_workhour))
           /\ invoked' = Append(invoked, callsOf(currentDate, workhours, is_ignore_workhour))
           /\ warnings' = warnings \cup
                 warnsOf(currentDate, timezone_identifier, service_duration,
                         timeslot_interval, events, workhours, is_ignore_workhour,
                         formatFails)
           /\ IF formatDateInTimezone(currentDate, timezone_identifier, formatFails).thrown
              THEN pc' = "failed" /\ error' = "RangeError"
              ELSE pc' = pc /\ error' = error
    /\ dayIndex' = dayIndex + 1
    /\ UNCHANGED <<formatFails, peer, loads, dto, eventsFile, workhoursFile, startDate,
                   events, workhours, todayUTC>>

\* The loop over the days enters generateAllTimeslots for a day whose
\* enumeration never ends: current + serviceDuration <= endSeconds holds
\* and current never grows.  The call does not return.
EnumerateForever ==
    /\ pc = "loop"
    /\ dayIndex < days
    /\ ~dayReturns(currentDateOf(startDate, dayIndex), timezone_identifier,
                   service_duration, timeslot_interval, workhours, is_ignore_workhour)
    /\ pc' = "enumerating"
    /\ UNCHANGED <<diagnostics, loads, dto, eventsFile, workhoursFile, error, startDate,
                   events, workhours, todayUTC, dayIndex, dayTimetables>>

Return ==
    /\ pc = "loop"
    /\ ~(dayIndex < days)
    /\ pc' = "done"
    /\ UNCHANGED <<diagnostics, loads, dto, eventsFile, workhoursFile, error, startDate, events,
                   workhours, todayUTC, dayIndex, dayTimetables>>

Next ==
    \/ ValidateTimezone
    \/ RejectTimezone
    \/ ParseStartDay
    \/ RejectStartDay
    \/ LoadEvents
    \/ LoadWorkhours
    \/ ComputeToday
    \/ BuildDay
    \/ EnumerateForever
    \/ Return

Spec == Init /\ [][Next]_vars


(***************************************************************************)
(* Two getTimeSlots calls on one service instance.  The services hold no   *)
(* field but their logger and collaborators; every value of a call is a    *)
(* local of getTimeSlots, and the data files are read anew by each call.   *)
(***************************************************************************)
\* The requests tried in pairs and with failing formatting.
SmallRequests ==
    { r \in Requests :
        /\ r.start_day_identifier \in { <<"2", "0", "2", "1", "0", "5", "0", "9">>,
                                        <<"2", "0", "2", "1", "a", "b", "0", "9">> }
        /\ r.timezone_identifier \in {JsString("Asia/Seoul"), JsString("UTC"), JsString("KST")}
        /\ r.service_duration = 3600
        /\ r.days \in {<<1>>, <<2>>}
        /\ r.timeslot_interval \in {<<1800>>, <<0>>}
        /\ r.is_ignore_schedule = r.is_ignore_workhour }

\* The locals of a call that has just been made with request d.
NewCall(d) ==
    [dto |-> d, pc |-> "validate", error |-> "", startDate |-> 0, events |-> <<>>,
     workhours |-> <<>>, todayUTC |-> 0, dayIndex |-> 0, dayTimetables |-> <<>>]

\* The next step of getTimeSlots on the locals r of a call.
RequestStep(r) ==
    LET d == r.dto
        tz == d.timezone_identifier.value
        n == Default(d.days, DEFAULT_DAYS)
        interval == Default(d.timeslot_interval, DEFAULT_TIMESLOT_INTERVAL)
        ignoreSchedule == Default(d.is_ignore_schedule, FALSE)
        ignoreWorkhour == Default(d.is_ignore_workhour, FALSE)
        p == parseStartDayIdentifierWithTimezone(d.start_day_identifier, tz)
        currentDate == currentDateOf(r.startDate, r.dayIndex)
    IN  CASE r.pc = "validate" ->
              IF validateTimezoneIdentifier(d.timezone_identifier) = "ok"
              THEN [r EXCEPT !.pc = "parse"]
              ELSE [r EXCEPT !.pc = "failed",
                             !.error = validateTimezoneIdentifier(d.timezone_identifier)]
          [] r.pc = "parse" ->
              IF p.ok THEN [r EXCEPT !.pc = "loadEvents", !.startDate = p.date]
              ELSE [r EXCEPT !.pc = "failed", !.error = p.error]
          [] r.pc = "loadEvents" ->
              [r EXCEPT !.pc = "loadWorkhours",
                        !.events = IF ignoreSchedule THEN <<>> ELSE loadEvents(eventsFile)]
          [] r.pc = "loadWorkhours" ->
              [r EXCEPT !.pc = "today",
                        !.workhours = IF ignoreWorkhour THEN <<>>
                                      ELSE loadWorkhours(workhoursFile)]
          [] r.pc = "today" ->
              [r EXCEPT !.pc = "loop", !.todayUTC = todayUTCOf(tz), !.dayIndex = 0]
          [] r.pc = "loop" ->
              IF r.dayIndex < n
              THEN [r EXCEPT !.dayIndex = @ + 1,
                             !.dayTimetables =
                                 Append(@, generateDayTimetableWithTimezone(
                                               currentDate,
                                               dayModifierOf(currentDate, r.todayUTC),
                                               tz, d.service_duration, interval,
                                               r.events, r.workhours, ignoreWorkhour))]
              ELSE [r EXCEPT !.pc = "done"]

PeerRunning == peer.pc \in {"validate", "parse", "loadEvents", "loadWorkhours", "today", "loop"}

\* Variant: the loaded events are a field of the service, written by
\* whichever call loads last.
PeerStepSharedEvents ==
    /\ PeerRunning
    /\ peer' = RequestStep(peer)
    /\ events' = IF peer.pc = "loadEvents" THEN peer'.events ELSE events
    /\ UNCHANGED <<dto, eventsFile, workhoursFile, pc, error, startDate,
                   workhours, todayUTC, dayIndex, dayTimetables, loads,
                   formatFails, warnings, invoked>>

\* Variant: the result array is a field of the service that a new call
\* does not empty.
PeerStepSharedTimetables ==
    /\ PeerRunning
    /\ peer' = IF peer.pc = "validate"
               THEN [RequestStep(peer) EXCEPT !.dayTimetables = dayTimetables]
               ELSE RequestStep(peer)
    /\ UNCHANGED <<dto, eventsFile, workhoursFile, pc, error, startDate, events,
                   workhours, todayUTC, dayIndex, dayTimetables, loads,
                   formatFails, warnings, invoked>>

\* A step of the second call; it touches its own locals only.
PeerStep ==
    /\ PeerRunning
    /\ peer' = RequestStep(peer)
    /\ UNCHANGED <<dto, eventsFile, workhoursFile, pc, error, startDate, events,
                   workhours, todayUTC, dayIndex, dayTimetables, loads,
                   formatFails, warnings, invoked>>

InitPair ==
    /\ dto \in SmallRequests
    /\ eventsFile \in {f \in EventsFiles(BaseOf(dto), FALSE) : Len(f.content) = 1}
    /\ workhoursFile \in {f \in WorkhoursFiles(BaseOf(dto), FALSE) : Len(f.content) = 4}
    /\ pc = "validate"
    /\ error = ""
    /\ startDate = 0
    /\ events = <<>>
    /\ workhours = <<>>
    /\ todayUTC = 0
    /\ dayIndex = 0
    /\ dayTimetables = <<>>
    /\ loadEventsCalls = 0
    /\ loadWorkhoursCalls = 0
    /\ formatFails = FALSE
    /\ warnings = {}
    /\ invoked = <<>>
    /\ peer \in {NewCall(d) : d \in {r \in SmallRequests :
                                        /\ r.timeslot_interval # <<0>>
                                        /\ r.timezone_identifier = JsString("Asia/Seoul")}}

NextPair ==
    \/ ValidateTimezone
    \/ RejectTimezone
    \/ ParseStartDay
    \/ RejectStartDay
    \/ LoadEvents
    \/ LoadWorkhours
    \/ ComputeToday
    \/ BuildDay
    \/ EnumerateForever
    \/ Return
    \/ PeerStep

SpecPair == InitPair /\ [][NextPair]_vars

(***************************************************************************)
(* One call during which format of date-fns-tz may throw.                  *)
(***************************************************************************)
InitFormat ==
    /\ dto \in SmallRequests
    /\ eventsFile \in EventsFiles(BaseOf(dto), is_ignore_schedule)
    /\ workhoursFile \in WorkhoursFiles(BaseOf(dto), is_ignore_workhour)
    /\ pc = "validate"
    /\ error = ""
    /\ startDate = 0
    /\ events = <<>>
    /\ workhours = <<>>
    /\ todayUTC = 0
    /\ dayIndex = 0
    /\ dayTimetables = <<>>
    /\ loadEventsCalls = 0
    /\ loadWorkhoursCalls = 0
    /\ formatFails \in BOOLEAN
    /\ warnings = {}
    /\ invoked = <<>>
    /\ peer = [pc |-> "absent"]

SpecFormat == InitFormat /\ [][Next]_vars

\* The event loop runs every continuation that is ready, and a read of a
\* data file completes: a call that can take a step takes one.  The parser
\* either returns or throws, so its step is enabled exactly when
\* pc = "parse"; its weak fairness is written out with that condition.
FairSpec ==
    /\ SpecFormat
    /\ WF_vars(ValidateTimezone)
    /\ WF_vars(RejectTimezone)
    /\ ([]<>(pc # "parse") \/ []<><<ParseStartDay \/ RejectStartDay>>_vars)
    /\ WF_vars(LoadEvents)
    /\ WF_vars(LoadWorkhours)
    /\ WF_vars(ComputeToday)
    /\ WF_vars(BuildDay)
    /\ WF_vars(EnumerateForever)
    /\ WF_vars(Return)

(***************************************************************************)
(* Properties.                                                             *)
(***************************************************************************)
Returned == pc = "done"

DayIndices == 1..Len(dayTimetables)

Slots(i) == dayTimetables[i].timeslots

SlotSet(i) == {Slots(i)[j] : j \in 1..Len(Slots(i))}

\* The events and rules of the data files, as a successful read returns them.
FileEvents == IF eventsFile.readable THEN eventsFile.content ELSE <<>>

FileRules == IF workhoursFile.readable THEN workhoursFile.content ELSE <<>>

EventsOf(evs) == {evs[j] : j \in 1..Len(evs)}

Overlaps(s, e) == s.begin_at < e.end_at /\ s.end_at > e.begin_at

\* The rule the day builder looks up for returned day i.
RuleOf(i) == find(workhours, getWeekdayUTC(dayTimetables[i].start_of_day))

\* The window the resolver yields for returned day i.
WindowOf(i) ==
    calculateWorkingHoursWithTimezone(dayTimetables[i].start_of_day, RuleOf(i),
                                      is_ignore_workhour, timezone_identifier)

\* The candidates workStart + k*interval that fit the window [ws, we].
CandidateSet(ws, we) ==
    { [begin_at |-> ws + (k * timeslot_interval),
       end_at |-> ws + (k * timeslot_interval) + service_duration] :
         k \in { n \in 0..(Max(we - ws, 0) \div timeslot_interval) :
                   ws + (n * timeslot_interval) + service_duration <= we } }

\* C1: with is_ignore_schedule false, no returned slot of any day overlaps
\* any event of the events source (half-open overlap test).
C1_NoSlotOverlapsEvent ==
    ~is_ignore_schedule =>
        \A i \in DayIndices : \A s \in SlotSet(i) : \A e \in EventsOf(FileEvents) :
            ~Overlaps(s, e)

\* A day was built from which the filter removed a candidate and kept others.
C1_Witness ==
    /\ Returned
    /\ ~is_ignore_schedule
    /\ \E i \in DayIndices :
          /\ ~dayTimetables[i].is_day_off
          /\ Slots(i) # <<>>
          /\ \E c \in CandidateSet(WindowOf(i).workStartSeconds, WindowOf(i).workEndSeconds) :
                \E e \in EventsOf(FileEvents) : Overlaps(c, e)

\* C2: on a working day the returned slots are exactly the candidates
\* workStart + k*interval that end by workEnd and conflict with no event,
\* in strictly ascending order; a candidate that only touches an event is kept.
C2_ExactlyTheFreeCandidates ==
    \A i \in DayIndices :
        ~dayTimetables[i].is_day_off =>
            /\ SlotSet(i) =
                 { c \in CandidateSet(WindowOf(i).workStartSeconds, WindowOf(i).workEndSeconds) :
                     \A e \in EventsOf(events) :
                        c.end_at <= e.begin_at \/ c.begin_at >= e.end_at }
            /\ \A j \in 1..(Len(Slots(i)) - 1) :
                  Slots(i)[j].begin_at < Slots(i)[j + 1].begin_at
            /\ (events = <<>> =>
                  Len(Slots(i)) =
                    Cardinality(CandidateSet(WindowOf(i).workStartSeconds,
                                             WindowOf(i).workEndSeconds)))

\* A day with a kept slot ending where an event begins, a kept slot
\* beginning where that event ends, and a removed candidate.
C2_Witness ==
    /\ Returned
    /\ \E i \in DayIndices : \E e \in EventsOf(events) :
          /\ \E s \in SlotSet(i) : s.end_at = e.begin_at
          /\ \E s \in SlotSet(i) : s.begin_at = e.end_at
          /\ \E c \in CandidateSet(WindowOf(i).workStartSeconds, WindowOf(i).workEndSeconds) :
                c \notin SlotSet(i)

\* C3: every returned slot lasts exactly service_duration.
C3_SlotDuration ==
    \A i \in DayIndices : \A s \in SlotSet(i) :
        s.end_at - s.begin_at = service_duration

C3_Witness ==
    /\ Returned
    /\ service_duration # timeslot_interval
    /\ \E i \in DayIndices : Len(Slots(i)) > 1

\* C4 as stated: consecutive returned slots begin exactly one
\* timeslot_interval apart, whatever the ignore flags and events.
C4_ConsecutiveOneInterval ==
    \A i \in DayIndices : \A j \in 1..(Len(Slots(i)) - 1) :
        Slots(i)[j + 1].begin_at - Slots(i)[j].begin_at = timeslot_interval

\* C4 amended: consecutive returned slots begin a positive multiple of
\* timeslot_interval apart; the gap is exactly one interval when no events
\* are loaded, and a larger gap spans only candidates that conflict with
\* an event.
C4_ConsecutiveIntervalMultiple ==
    \A i \in DayIndices : \A j \in 1..(Len(Slots(i)) - 1) :
        LET a == Slots(i)[j]
            b == Slots(i)[j + 1]
            gap == b.begin_at - a.begin_at
        IN  /\ gap > 0
            /\ gap % timeslot_interval = 0
            /\ (events = <<>> => gap = timeslot_interval)
            /\ \A k \in 1..((gap \div timeslot_interval) - 1) :
                  \E e \in EventsOf(events) :
                     Overlaps([begin_at |-> a.begin_at + (k * timeslot_interval),
                               end_at |-> a.begin_at + (k * timeslot_interval) + service_duration], e)

\* A day with a gap of more than one interval between two returned slots.
C4_Witness ==
    /\ Returned
    /\ \E i \in DayIndices : \E j \in 1..(Len(Slots(i)) - 1) :
          Slots(i)[j + 1].begin_at - Slots(i)[j].begin_at > timeslot_interval

\* C5: a day marked is_day_off has no slots, and a day is marked exactly
\* when is_ignore_workhour is false and the rule looked up for it in the
\* work-hours source has is_day_off set.
C5_DayOff ==
    \A i \in DayIndices :
        LET rule == find(FileRules, getWeekdayUTC(dayTimetables[i].start_of_day))
        IN  /\ dayTimetables[i].is_day_off => Slots(i) = <<>>
            /\ dayTimetables[i].is_day_off =
                 (~is_ignore_workhour /\ rule # <<>> /\ rule[1].is_day_off)

\* A day off whose rule carries a non-empty open/close interval, next to a
\* working day with slots.
C5_Witness ==
    /\ Returned
    /\ \E i \in DayIndices :
          LET rule == find(FileRules, getWeekdayUTC(dayTimetables[i].start_of_day))
          IN  /\ dayTimetables[i].is_day_off
              /\ rule[1].open_interval < rule[1].close_interval
    /\ \E i \in DayIndices : Slots(i) # <<>>

\* The weekday number (1 = Sunday) that the zone shows at instant t.
LocalWeekday(t, tz) == getUTCDay(convertToTimezone(t, tz)) + 1

\* Local midnight, in the zone, of the civil date the zone shows at t.
LocalMidnight(t, tz) ==
    convertFromTimezone((convertToTimezone(t, tz) \div SECONDS_IN_DAY) * SECONDS_IN_DAY, tz)

\* C6 as stated: with is_ignore_workhour false and only the rule
\* {weekday: W, open 36000, close 72000} loaded, a requested day whose local
\* weekday in the request zone is W has all its slots inside
\* [local_midnight + 36000, local_midnight + 72000].
C6_LocalWeekdayRuleApplied ==
    \A i \in DayIndices :
        LET sod == dayTimetables[i].start_of_day
            W == LocalWeekday(sod, timezone_identifier)
            lm == LocalMidnight(sod, timezone_identifier)
        IN  (~is_ignore_workhour /\ workhours = <<Rule(W, 36000, 72000, FALSE)>>) =>
                \A s \in SlotSet(i) :
                    lm + 36000 <= s.begin_at /\ s.end_at <= lm + 72000

\* The zone's UTC offset does not change from start_of_day through
\* the next midnight (sampled every hour, transitions fall on whole hours).
ConstantOffsetFrom(sod, tz) ==
    \A h \in 0..24 : calcOffset(sod + (h * 3600), tz) = calcOffset(sod, tz)

\* C7: a non-day-off rule applied in a zone whose offset is constant over
\* the day resolves to [start_of_day + open_interval, start_of_day +
\* close_interval], and every returned slot lies inside that window.
C7_RuleWindow ==
    \A i \in DayIndices :
        LET sod == dayTimetables[i].start_of_day
            rule == RuleOf(i)
        IN  (/\ ~is_ignore_workhour
             /\ rule # <<>>
             /\ ~dayTimetables[i].is_day_off
             /\ ConstantOffsetFrom(sod, timezone_identifier)) =>
                /\ WindowOf(i).workStartSeconds = sod + rule[1].open_interval
                /\ WindowOf(i).workEndSeconds = sod + rule[1].close_interval
                /\ \A s \in SlotSet(i) :
                      /\ sod + rule[1].open_interval <= s.begin_at
                      /\ s.end_at <= sod + rule[1].close_interval

\* A rule applied in a zone away from UTC, with slots returned.
C7_Witness ==
    /\ Returned
    /\ \E i \in DayIndices :
          /\ ~is_ignore_workhour
          /\ RuleOf(i) # <<>>
          /\ ~dayTimetables[i].is_day_off
          /\ ConstantOffsetFrom(dayTimetables[i].start_of_day, timezone_identifier)
          /\ calcOffset(dayTimetables[i].start_of_day, timezone_identifier) # 0
          /\ Slots(i) # <<>>

\* C8: when work hours are ignored or no rule is found for the day, the
\* day is not a day off and its slots are the free candidates of
\* [start_of_day, start_of_day + 86400 - 1]: none ends after
\* start_of_day + 86399 and a service of 86400 seconds gets none.
C8_FullDayWindow ==
    \A i \in DayIndices :
        LET sod == dayTimetables[i].start_of_day
        IN  (is_ignore_workhour \/ RuleOf(i) = <<>>) =>
                /\ ~dayTimetables[i].is_day_off
                /\ SlotSet(i) =
                     { c \in CandidateSet(sod, sod + 86400 - 1) :
                         \A e \in EventsOf(events) : ~Overlaps(c, e) }
                /\ \A s \in SlotSet(i) : s.end_at <= sod + 86399
                /\ (service_duration = 86400 => Slots(i) = <<>>)

\* Work hours ignored on a weekday whose rule is a day off; slots are
\* returned although a candidate ending at the next midnight exists.
C8_Witness ==
    /\ Returned
    /\ is_ignore_workhour
    /\ (86400 - service_duration) % timeslot_interval = 0
    /\ \E i \in DayIndices :
          LET rule == find(FileRules, getWeekdayUTC(dayTimetables[i].start_of_day))
          IN  /\ rule # <<>>
              /\ rule[1].is_day_off
              /\ Slots(i) # <<>>

\* The components of a start_day_identifier that parses.
YearOf(id) == parseInt(substring(id, 0, 4))[1]
MonthOf(id) == parseInt(substring(id, 4, 6))[1]
DayOf(id) == parseInt(substring(id, 6, 8))[1]

\* C9 as stated: start_of_day of returned day i is local midnight, in the
\* request zone, of the civil date start_day + i.
C9_StartOfDayIsLocalMidnight ==
    \A i \in DayIndices :
        dayTimetables[i].start_of_day =
            convertFromTimezone(NewDate(YearOf(dto.start_day_identifier),
                                        MonthOf(dto.start_day_identifier) - 1,
                                        DayOf(dto.start_day_identifier) + (i - 1)),
                                timezone_identifier)

C11_StartOfDaySpacing ==
    /\ \A i \in DayIndices :
          dayTimetables[i].start_of_day =
              dayTimetables[1].start_of_day + ((i - 1) * 86400)
    /\ \A i \in 1..(Len(dayTimetables) - 1) :
          dayTimetables[i + 1].start_of_day - dayTimetables[i].start_of_day = 86400

\* Two days returned whose zone offsets differ: the offset changed between.
C11_Witness ==
    /\ Returned
    /\ Len(dayTimetables) >= 2
    /\ calcOffset(dayTimetables[1].start_of_day, timezone_identifier)
         # calcOffset(dayTimetables[2].start_of_day + 7200, timezone_identifier)

\* Two days returned that span a month end.
C11_WitnessMonthEnd ==
    /\ Returned
    /\ Len(dayTimetables) >= 2
    /\ dto.start_day_identifier = <<"2", "0", "2", "1", "0", "2", "2", "8">>

\* C12: the day_modifier of returned day i is that of the first day plus i;
\* the rounding neither skips nor repeats a value.
C12_DayModifierConsecutive ==
    \A i \in DayIndices :
        dayTimetables[i].day_modifier = dayTimetables[1].day_modifier + (i - 1)

\* Two days returned where the distance from the reference day is not a
\* whole number of days, so the rounding does work.
C12_Witness ==
    /\ Returned
    /\ Len(dayTimetables) >= 2
    /\ (startDate - todayUTC) % 86400 # 0

\* The day number (days since 1970-01-01) of the civil date start_day + k.
CivilDayNumber(id, k) ==
    NewDate(YearOf(id), MonthOf(id) - 1, DayOf(id) + k) \div 86400

\* The day number of the civil date that zone tz shows at the fixed instant.
ReferenceDayNumber(tz) == (1631232000 + calcOffset(1631232000, tz)) \div 86400

C14_DayModifierFromStartDate ==
    \A i \in DayIndices : dayTimetables[i].day_modifier = i - 1

\* The number of days the request asks for.
RequestedDays == IF dto.days = <<>> THEN 1 ELSE dto.days[1]

\* C15: a call that returns gives exactly `days` entries (one when days is
\* omitted) with strictly increasing start_of_day; days = 0 gives the empty
\* sequence and is no error.
C15_ExactlyDaysEntries ==
    /\ Len(dayTimetables) <= RequestedDays
    /\ Returned => Len(dayTimetables) = RequestedDays
    /\ \A i \in 1..(Len(dayTimetables) - 1) :
          dayTimetables[i].start_of_day < dayTimetables[i + 1].start_of_day
    /\ (RequestedDays = 0 /\ pc = "failed") =>
          \/ validateTimezoneIdentifier(dto.timezone_identifier) # "ok"
          \/ ~parseStartDayIdentifierWithTimezone(dto.start_day_identifier,
                                                  timezone_identifier).ok

\* A request for several days returned.
C15_Witness ==
    /\ Returned
    /\ dto.days # <<>>
    /\ Len(dayTimetables) >= 2

\* A request for zero days returned the empty sequence.
C15_WitnessZeroDays ==
    /\ Returned
    /\ dto.days = <<0>>
    /\ dayTimetables = <<>>

\* A request that omits days returned one day.
C15_WitnessDaysOmitted ==
    /\ Returned
    /\ dto.days = <<>>
    /\ Len(dayTimetables) = 1

\* The request's timezone_identifier is empty, whitespace-only, not a string
\* or names no zone.
TimezoneInvalid ==
    \/ dto.timezone_identifier.type # "string"
    \/ dto.timezone_identifier.value \in {"", " ", "   "}
    \/ dto.timezone_identifier.value \notin Zones

\* The request's start_day_identifier is not 8 characters long, or holds a
\* character that is no digit.
DateIdentifierInvalid ==
    \/ Len(dto.start_day_identifier) # 8
    \/ \E k \in 1..Len(dto.start_day_identifier) : ~IsDigit(dto.start_day_identifier[k])

C16_WitnessNotAString ==
    /\ pc = "failed"
    /\ dto.timezone_identifier = JsNumber9

\* A request whose timezone_identifier is whitespace only has failed.
C16_WitnessWhitespace ==
    /\ pc = "failed"
    /\ dto.timezone_identifier = JsString("   ")

\* C17 as stated: with a start_day_identifier that is not 8 characters long
\* or holds a non-digit character, the call fails with an invalid-date
\* error, builds no timetable and loads no data.
C17_NonDigitIdentifierRejected ==
    (~TimezoneInvalid /\ DateIdentifierInvalid) =>
        /\ pc \in {"validate", "parse", "failed"}
        /\ (pc = "failed" =>
              error \in {"Invalid start_day_identifier format",
                         "Invalid date components in start_day_identifier"})
        /\ dayTimetables = <<>>
        /\ loadEventsCalls = 0 /\ loadWorkhoursCalls = 0

\* The request passes validation of its zone and of its start day.
RequestValid ==
    /\ validateTimezoneIdentifier(dto.timezone_identifier) = "ok"
    /\ parseStartDayIdentifierWithTimezone(dto.start_day_identifier,
                                           timezone_identifier).ok

\* The slots of returned day i are exactly the candidates of the whole day
\* that conflict with no event of evs.
FullDayFreeOf(i, evs) ==
    SlotSet(i) =
      { c \in CandidateSet(dayTimetables[i].start_of_day,
                           dayTimetables[i].start_of_day + 86399) :
          \A e \in EventsOf(evs) : c.end_at <= e.begin_at \/ c.begin_at >= e.end_at }

\* C18: a source that cannot be read never aborts the request; it counts as
\* empty (no events: nothing is filtered; no rules: every day is a working
\* day with the full-day window), and the other source is used as usual.
C18_UnreadableSourceIsEmpty ==
    /\ pc = "failed" => ~RequestValid
    /\ (~is_ignore_schedule /\ ~eventsFile.readable) =>
          /\ events = <<>>
          /\ \A i \in DayIndices :
                /\ dayTimetables[i] =
                     generateDayTimetableWithTimezone(
                         dayTimetables[i].start_of_day, dayTimetables[i].day_modifier,
                         timezone_identifier, service_duration, timeslot_interval,
                         <<>>, IF is_ignore_workhour THEN <<>> ELSE FileRules,
                         is_ignore_workhour)
                /\ ~dayTimetables[i].is_day_off =>
                      Len(Slots(i)) =
                        Cardinality(CandidateSet(WindowOf(i).workStartSeconds,
                                                 WindowOf(i).workEndSeconds))
    /\ (~is_ignore_workhour /\ ~workhoursFile.readable) =>
          /\ workhours = <<>>
          /\ \A i \in DayIndices :
                /\ ~dayTimetables[i].is_day_off
                /\ FullDayFreeOf(i, IF is_ignore_schedule THEN <<>> ELSE FileEvents)

\* A request returned although its events file could not be read, with a
\* day closed by a rule of the work-hours file and a day of unfiltered slots.
C18_Witness ==
    /\ Returned
    /\ ~is_ignore_schedule /\ ~eventsFile.readable
    /\ ~is_ignore_workhour /\ workhours # <<>>
    /\ \E i \in DayIndices : dayTimetables[i].is_day_off
    /\ \E i \in DayIndices : Slots(i) # <<>>

\* A request returned although its work-hours file could not be read, with
\* a full-day window from which an event removed a slot.
C18_WitnessWorkhours ==
    /\ Returned
    /\ ~is_ignore_workhour /\ ~workhoursFile.readable
    /\ ~is_ignore_schedule /\ events # <<>>
    /\ \E i \in DayIndices :
          /\ Slots(i) # <<>>
          /\ Len(Slots(i)) <
               Cardinality(CandidateSet(dayTimetables[i].start_of_day,
                                        dayTimetables[i].start_of_day + 86399))

\* C19 as stated: an event with begin_at >= end_at is excluded before the
\* conflict filter, so a candidate that conflicts with no event of
\* begin_at < end_at is returned.
C19_InvertedEventsExcluded ==
    \A i \in DayIndices :
        ~dayTimetables[i].is_day_off =>
            \A c \in CandidateSet(WindowOf(i).workStartSeconds, WindowOf(i).workEndSeconds) :
                (\A e \in EventsOf(events) :
                    e.begin_at < e.end_at =>
                        (c.end_at <= e.begin_at \/ c.begin_at >= e.end_at))
                => c \in SlotSet(i)

\* The loader calls a request makes, by its flags (an omitted flag is false).
ExpectedLoads ==
    << IF dto.is_ignore_schedule = <<TRUE>> THEN 0 ELSE 1,
       IF dto.is_ignore_workhour = <<TRUE>> THEN 0 ELSE 1 >>

\* C20: the events source is loaded iff is_ignore_schedule is false and the
\* work-hours source iff is_ignore_workhour is false, each at most once
\* whatever `days` is, and both loads are over before the first day is built.
C20_LoadsByFlagOnceBeforeDays ==
    /\ loadEventsCalls <= ExpectedLoads[1]
    /\ loadWorkhoursCalls <= ExpectedLoads[2]
    /\ pc \in {"today", "loop", "done"} =>
          <<loadEventsCalls, loadWorkhoursCalls>> = ExpectedLoads
    /\ pc = "loadWorkhours" => loadEventsCalls = ExpectedLoads[1]
    /\ dayTimetables # <<>> =>
          /\ pc \in {"loop", "done"}
          /\ <<loadEventsCalls, loadWorkhoursCalls>> = ExpectedLoads

\* A request of several days that ignores neither source returned with one
\* load of each.
C20_Witness ==
    /\ Returned
    /\ Len(dayTimetables) >= 2
    /\ dto.is_ignore_schedule = <<FALSE>>
    /\ dto.is_ignore_workhour = <<FALSE>>
    /\ loadEventsCalls = 1 /\ loadWorkhoursCalls = 1

\* A request that ignores the schedule only returned: no load of the
\* events, one of the work hours.
C20_WitnessIgnoreSchedule ==
    /\ Returned
    /\ dto.is_ignore_schedule = <<TRUE>>
    /\ dto.is_ignore_workhour = <<FALSE>>
    /\ loadEventsCalls = 0 /\ loadWorkhoursCalls = 1

\* A request that omits both flags returned with one load of each source.
C20_WitnessFlagsOmitted ==
    /\ Returned
    /\ dto.is_ignore_schedule = <<>> /\ dto.is_ignore_workhour = <<>>
    /\ loadEventsCalls = 1 /\ loadWorkhoursCalls = 1

\* Returned day i is no day off by the rules: work hours are ignored, or
\* no rule is found for it, or the rule found is no day off.
NotADayOff(i) ==
    \/ is_ignore_workhour
    \/ RuleOf(i) = <<>>
    \/ ~RuleOf(i)[1].is_day_off

\* C21: on a day that is no day off, a service_duration longer than the
\* resolved window gives no slots with is_day_off false; and the
\* enumeration gives at least one slot exactly when the duration fits the
\* window, a duration equal to the window included.
C21_NoRoomGivesEmptyWorkingDay ==
    \A i \in DayIndices :
        NotADayOff(i) =>
            LET ws == WindowOf(i).workStartSeconds
                we == WindowOf(i).workEndSeconds
            IN  /\ service_duration > we - ws =>
                      /\ Slots(i) = <<>>
                      /\ ~dayTimetables[i].is_day_off
                /\ service_duration <= we - ws =>
                      Len(generateAllTimeslots(ws, we, service_duration,
                                               timeslot_interval)) >= 1
                /\ \A room \in {service_duration - 1, service_duration} :
                      (generateAllTimeslots(ws, ws + room, service_duration,
                                            timeslot_interval) # <<>>)
                        = (service_duration <= room)

\* A returned working day whose rule leaves less room than the service
\* needs: no slots, and no day off.
C21_Witness ==
    /\ Returned
    /\ ~is_ignore_workhour
    /\ \E i \in DayIndices :
          /\ RuleOf(i) # <<>>
          /\ ~RuleOf(i)[1].is_day_off
          /\ service_duration > WindowOf(i).workEndSeconds - WindowOf(i).workStartSeconds
          /\ Slots(i) = <<>>
          /\ ~dayTimetables[i].is_day_off

\* A call has ended: it returned its timetables or failed with an error.
Ended(state) == state \in {"done", "failed"}

ResultAlone(d) ==
    LET tz == d.timezone_identifier.value
        start == parseStartDayIdentifierWithTimezone(d.start_day_identifier, tz).date
        evs == IF Default(d.is_ignore_schedule, FALSE) THEN <<>> ELSE loadEvents(eventsFile)
        whs == IF Default(d.is_ignore_workhour, FALSE) THEN <<>>
               ELSE loadWorkhours(workhoursFile)
    IN  [i \in 1..Default(d.days, DEFAULT_DAYS) |->
            generateDayTimetableWithTimezone(
                currentDateOf(start, i - 1),
                dayModifierOf(currentDateOf(start, i - 1), todayUTCOf(tz)),
                tz, d.service_duration,
                Default(d.timeslot_interval, DEFAULT_TIMESLOT_INTERVAL),
                evs, whs, Default(d.is_ignore_workhour, FALSE))]

\* C23: of two calls interleaved in any order on one service instance,
\* each returns what it returns when run alone; no call sees what the other
\* wrote, and the events and rules a call has loaded stay as loaded.
C23_ConcurrentCallsIsolated ==
    (PeerRunning \/ Ended(peer.pc)) =>
        /\ Returned => dayTimetables = ResultAlone(dto)
        /\ peer.pc = "done" => peer.dayTimetables = ResultAlone(peer.dto)
        /\ pc \in {"loadWorkhours", "today", "loop", "done"} =>
              events = IF is_ignore_schedule THEN <<>> ELSE loadEvents(eventsFile)
        /\ pc \in {"today", "loop", "done"} =>
              workhours = IF is_ignore_workhour THEN <<>> ELSE loadWorkhours(workhoursFile)
        /\ peer.pc \in {"loadWorkhours", "today", "loop", "done"} =>
              peer.events = IF Default(peer.dto.is_ignore_schedule, FALSE) THEN <<>>
                            ELSE loadEvents(eventsFile)
        /\ peer.pc \in {"today", "loop", "done"} =>
              peer.workhours = IF Default(peer.dto.is_ignore_workhour, FALSE) THEN <<>>
                               ELSE loadWorkhours(workhoursFile)

\* Two calls with different flags have both returned, one with an event
\* filtered and one with the schedule ignored.
C23_Witness ==
    /\ Returned /\ peer.pc = "done"
    /\ ~is_ignore_schedule /\ Default(peer.dto.is_ignore_schedule, FALSE)
    /\ Len(dayTimetables) >= 1 /\ Len(peer.dayTimetables) >= 1
    /\ dayTimetables[1] # peer.dayTimetables[1]

\* The second call loads while the first is in its loop over the days.
C23_WitnessInterleaved ==
    /\ pc = "loop" /\ dayIndex = 1
    /\ peer.pc = "loadWorkhours"
    /\ ~is_ignore_schedule /\ Default(peer.dto.is_ignore_schedule, FALSE)

UTCWeekdayNumber(t) == (((t \div 86400) + 4) % 7) + 1

\* The positions in the loaded rules of the rules for weekday w.
RulePositions(w) == {j \in 1..Len(workhours) : workhours[j].weekday = w}

C25_WitnessWrap ==
    /\ Returned
    /\ Len(dayTimetables) >= 2
    /\ UTCWeekdayNumber(dayTimetables[1].start_of_day) = 7
    /\ UTCWeekdayNumber(dayTimetables[2].start_of_day) = 1

\* The loop over the days is about to build a working day whose window has
\* room for the service.
NextDayHasRoom ==
    /\ pc = "loop"
    /\ dayIndex < days
    /\ LET date == startDate + (dayIndex * 86400)
           rule == find(workhours, getWeekdayUTC(date))
           win == calculateWorkingHoursWithTimezone(date, rule, is_ignore_workhour,
                                                    timezone_identifier)
       IN  /\ is_ignore_workhour \/ rule = <<>> \/ ~rule[1].is_day_off
           /\ service_duration <= win.workEndSeconds - win.workStartSeconds

C26_WitnessReturned ==
    /\ Returned
    /\ timeslot_interval >= 1
    /\ Len(dayTimetables) = 2

\* C27: when the display formatting of date-fns-tz throws in the logging
\* paths, the failure is absorbed: only validation fails a request, and every
\* day built is the one the same request gets when formatting works.
C27_FormatFailureAbsorbed ==
    formatFails =>
        /\ pc = "failed" =>
              /\ ~RequestValid
              /\ error \in {"Invalid timezone identifier",
                            "Invalid start_day_identifier format",
                            "Invalid date components in start_day_identifier"}
        /\ \A i \in 1..Len(dayTimetables) : dayTimetables[i] = ResultAlone(dto)[i]

\* A two-day request has returned slots although both the date and the time
\* formatting failed while its days were logged.
C27_Witness ==
    /\ formatFails
    /\ Returned
    /\ Len(dayTimetables) = 2
    /\ warnings = {"Failed to format date", "Failed to format time"}
    /\ \E i \in DayIndices : Slots(i) # <<>>

\* The rule applied to returned day i is not a day off and breaks
\* 0 <= open_interval < close_interval <= 86400.
RuleViolatesBounds(i) ==
    /\ ~is_ignore_workhour
    /\ RuleOf(i) # <<>>
    /\ ~RuleOf(i)[1].is_day_off
    /\ ~(/\ 0 <= RuleOf(i)[1].open_interval
         /\ RuleOf(i)[1].open_interval < RuleOf(i)[1].close_interval
         /\ RuleOf(i)[1].close_interval <= SECONDS_IN_DAY)

FormatWarnings == {"Failed to format date", "Failed to format time"}

\* C28: when a rule that is not a day off and breaks
\* 0 <= open_interval < close_interval <= 86400 is applied to a day, a
\* warning about the rule is logged, and the day is still returned, without
\* slots when open_interval >= close_interval.
C28_InvalidRuleWarnedNotFatal ==
    \A i \in 1..Len(dayTimetables) :
        RuleViolatesBounds(i) =>
            /\ warnings \ FormatWarnings # {}
            /\ RuleOf(i)[1].open_interval >= RuleOf(i)[1].close_interval
                  => Slots(i) = <<>>

\* The begin_at values returned for day i.
BeginSet(i) == {Slots(i)[j].begin_at : j \in 1..Len(Slots(i))}

\* The candidate that begins k intervals after slot a.
CandidateAfter(a, k) ==
    [begin_at |-> a.begin_at + (k * timeslot_interval),
     end_at |-> a.begin_at + (k * timeslot_interval) + service_duration]

\* C29: within a returned day the slots are strictly increasing in begin_at,
\* every begin_at is workStart plus a whole number of intervals, and the gap
\* between two consecutive slots is a positive multiple of the interval that
\* is larger than one interval exactly when every candidate between them was
\* removed for conflicting with an event.
C29_OrderedOnIntervalGrid ==
    \A i \in DayIndices :
        /\ Cardinality(BeginSet(i)) = Len(Slots(i))
        /\ LET workStart == WindowOf(i).workStartSeconds
           IN  \A b \in BeginSet(i) :
                  /\ b >= workStart
                  /\ (b - workStart) % timeslot_interval = 0
        /\ \A j \in 1..(Len(Slots(i)) - 1) :
              LET a == Slots(i)[j]
                  gap == Slots(i)[j + 1].begin_at - a.begin_at
                  between == {CandidateAfter(a, k) :
                                k \in 1..((gap \div timeslot_interval) - 1)}
                  removed == {c \in between :
                                \E n \in 1..Len(events) :
                                   hasTimeConflictWithTimezone(c, events[n])}
              IN  /\ gap > 0
                  /\ gap % timeslot_interval = 0
                  /\ between = removed
                  /\ (gap > timeslot_interval) = (removed # {})

\* A returned day whose slots lie on both sides of an event: one gap of one
\* interval and one larger gap.
C29_Witness ==
    /\ Returned
    /\ \E i \in DayIndices :
          /\ Len(Slots(i)) >= 3
          /\ \E j \in 1..(Len(Slots(i)) - 1) :
                Slots(i)[j + 1].begin_at - Slots(i)[j].begin_at = timeslot_interval
          /\ \E j \in 1..(Len(Slots(i)) - 1) :
                Slots(i)[j + 1].begin_at - Slots(i)[j].begin_at > timeslot_interval

\* A returned day without events loaded: every gap is one interval.
C29_WitnessNoEvents ==
    /\ Returned
    /\ events = <<>>
    /\ \E i \in DayIndices :
          /\ Len(Slots(i)) >= 3
          /\ Slots(i)[1].begin_at = WindowOf(i).workStartSeconds

\* Returned day i uses the full-day window or a rule inside
\* 0 <= open_interval < close_interval <= 86400, in a zone whose offset does
\* not change during the day.
DayWithinBounds(i) ==
    /\ ~RuleViolatesBounds(i)
    /\ ConstantOffsetFrom(dayTimetables[i].start_of_day, timezone_identifier)

\* C30: when every day of a response uses the full-day window or a rule
\* inside 0 <= open_interval < close_interval <= 86400 and the offset of the
\* zone is constant, every slot of day i lies inside
\* [start_of_day, start_of_day + 86400], and no begin_at is returned under
\* two days.
C30_SlotsInsideOwnDay ==
    /\ \A i \in DayIndices :
          DayWithinBounds(i) =>
              \A s \in SlotSet(i) :
                  /\ dayTimetables[i].start_of_day <= s.begin_at
                  /\ s.end_at <= dayTimetables[i].start_of_day + SECONDS_IN_DAY
    /\ (\A i \in DayIndices : DayWithinBounds(i)) =>
          \A i \in DayIndices : \A j \in DayIndices :
              i < j => BeginSet(i) \cap BeginSet(j) = {}

\* A two-day response with slots on both days, an applied rule among them.
C30_Witness ==
    /\ Returned
    /\ Len(dayTimetables) = 2
    /\ \A i \in DayIndices : DayWithinBounds(i) /\ Slots(i) # <<>>
    /\ \E i \in DayIndices : ~is_ignore_workhour /\ RuleOf(i) # <<>>

\* With a rule whose close_interval is larger than 86400 the same slot is
\* returned for two consecutive days.
C30_WitnessSameSlotTwice ==
    /\ Returned
    /\ \E i \in 1..(Len(dayTimetables) - 1) :
          /\ RuleViolatesBounds(i)
          /\ RuleOf(i)[1].close_interval > SECONDS_IN_DAY
          /\ SlotSet(i) \cap SlotSet(i + 1) # {}

====
